---- MODULE Spec2Model ----
(***************************************************************************)
(* Model of the multi-parent resolver (transforms/J_resolve_multi_parents) *)
(* and of the part-2 orchestrator (run_migration_2) of wiki-migrator-3,    *)
(* specification Spec; of the parent-graph, path and reclassification      *)
(* transforms (4, 2, 5, B, K, M, P, T, U, U_ordered, 0B, 0C) and of the    *)
(* writer of the final structure (X), specification SpecPaths; and of the  *)
(* library functions sanitize_filename (lib/io) and validate_notes         *)
(* (lib/validators), specification SpecLib.                                *)
(*                                                                         *)
(* The checklist file resolve_multi_parents.md is a sequence of lines.  A  *)
(* line is kept by what the parser can see of it:                          *)
(*   h2   "## <a>"        matches the header regex ^## (.+)$               *)
(*   h3   "### <a>"       does not match it (third character is '#')       *)
(*   box  "- [<b>] <a>"   b is the mark: " ", "x" or "X"                   *)
(*   done "- **<a>** -> <b>"  a summarised note and its recorded parent    *)
(*   rule "---"                                                            *)
(*   text any other line (blank lines, prose, the "# ..." heading)         *)
(* Runs of text lines that the code writes are kept as one text line.      *)
(***************************************************************************)
EXTENDS Integers, Sequences, FiniteSets, TLC

VARIABLES notes, exists, content, folders, output, last, edits, runs, coop, orch

\* the batch on its way through the parent-graph and path transforms, the
\* same batch as it is when an earlier path stage was left out (twin), the
\* transforms applied so far, both batches as the last transform found them,
\* and the files of the final structure once the writer has run
VARIABLES batch, twin, trail, pre, written

pvars == <<batch, twin, trail, pre, written>>

\* the last call of a library function: the name given to sanitize_filename
\* and what it returned, the notes given to validate_notes and its messages
VARIABLES raw, safe, checked, messages

lvars == <<raw, safe, checked, messages>>

vars == <<notes, exists, content, folders, output, last, edits, runs, coop, orch, pvars, lvars>>

----------------------------------------------------------------------------
(* Bounds of the model *)

MaxNotes == 2
MaxParents == 3
MaxEdits == 2
MaxRuns == 3
MaxLines == 2

----------------------------------------------------------------------------
(* Titles and parent entries the batches are drawn from *)

NoteTitles == <<"X", "Y", "W">>

\* entries of metadata["parents"] as 5_identify_para_parents.py builds them:
\* the category first, then the notes named by tags
ParentPool ==
  << [id |-> "A", title |-> "A", type |-> "para_folder"],
     [id |-> "id-B", title |-> "B", type |-> "note"],
     [id |-> "id-C", title |-> "C", type |-> "note"],
     [id |-> "id-D", title |-> "D", type |-> "note"] >>

\* what a human may type instead of a listed title
StaleTitle == "Z"

\* Python's None: for a title, and for the result of a failed note lookup
None == "<None>"
NoneNote == [title |-> None, parents |-> <<>>]

\* J_resolve_multi_parents.py: SCRIPT_ID, and the name the file was written under
SCRIPT_ID == "I2"

Min(a, b) == IF a < b THEN a ELSE b

Range(s) == {s[i] : i \in DOMAIN s}

\* the parents lists of the batches: the first n entries of the pool
ParentLists == {SubSeq(ParentPool, 1, n) : n \in 0..Min(MaxParents, Len(ParentPool))}

Batches ==
  UNION {
    {[i \in 1..n |-> [title |-> NoteTitles[i], parents |-> ps[i]]] : ps \in [1..n -> ParentLists]}
    : n \in 1..Min(MaxNotes, Len(NoteTitles))}

----------------------------------------------------------------------------
(* Lines of the checklist file *)

Text == [k |-> "text", a |-> "", b |-> ""]
Rule == [k |-> "rule", a |-> "", b |-> ""]
H2(t) == [k |-> "h2", a |-> t, b |-> ""]
H3(t) == [k |-> "h3", a |-> t, b |-> ""]
Box(m, t) == [k |-> "box", a |-> t, b |-> m]
Done(n, p) == [k |-> "done", a |-> n, b |-> p]

Marks == {" ", "x", "X"}

RECURSIVE Concat(_)
Concat(ss) == IF ss = <<>> THEN <<>> ELSE Head(ss) \o Concat(Tail(ss))

----------------------------------------------------------------------------
(* J_resolve_multi_parents.py, the functions of the transform *)

get_multi_parent_notes(ns) == SelectSeq(ns, LAMBDA n : Len(n.parents) > 1)

UncheckedOptions(n) == [i \in 1..Len(n.parents) |-> Box(" ", n.parents[i].title)]

\* the slip of listing only the first parent of each note
generate_resolution_file_first_only(ns) ==
  LET multi_notes == SelectSeq(ns, LAMBDA n : Len(n.parents) > 1)
  IN  <<Text, Rule>>
      \o Concat([i \in 1..Len(multi_notes) |->
                   <<H2(multi_notes[i].title), Text, Box(" ", multi_notes[i].parents[1].title)>>])
      \o <<Rule, H2("Instructions"), Text>>

generate_resolution_file(ns) ==
  LET multi_notes == get_multi_parent_notes(ns)
  IN  <<Text, Rule>>
      \o Concat([i \in 1..Len(multi_notes) |->
                   <<H2(multi_notes[i].title), Text>> \o UncheckedOptions(multi_notes[i])])
      \o <<Rule, H2("Instructions"), Text>>

\* str.strip() of the text after the checkbox marker
strip(t) == IF t = " A " THEN "A" ELSE t

\* a dict with insertion order: a sequence of [key, val] with distinct keys
DictHas(d, key) == \E i \in DOMAIN d : d[i].key = key

DictGet(d, key) == d[CHOOSE i \in DOMAIN d : d[i].key = key].val

DictSet(d, key, val) ==
  IF DictHas(d, key)
  THEN [i \in DOMAIN d |-> IF d[i].key = key THEN [key |-> key, val |-> val] ELSE d[i]]
  ELSE Append(d, [key |-> key, val |-> val])

DictKeys(d) == [i \in DOMAIN d |-> d[i].key]

IsCheckedLine(line) == line.k = "box" /\ line.b \in {"x", "X"}

RECURSIVE parse_lines(_, _, _, _)
parse_lines(lines, i, selections, current_note) ==
  IF i > Len(lines) THEN selections
  ELSE LET line == lines[i] IN
    IF line.k = "h2"
    THEN parse_lines(lines, i + 1, DictSet(selections, line.a, <<>>), line.a)
    ELSE IF current_note # None /\ IsCheckedLine(line) /\ DictHas(selections, current_note)
    THEN parse_lines(lines, i + 1,
                     DictSet(selections, current_note,
                             Append(DictGet(selections, current_note), strip(line.a))),
                     current_note)
    ELSE parse_lines(lines, i + 1, selections, current_note)

parse_resolution_file(ex, lines) ==
  IF ~ex THEN <<>> ELSE parse_lines(lines, 1, <<>>, None)

categorize_selections(selections) ==
  LET one == SelectSeq(selections, LAMBDA e : Len(e.val) = 1)
      rest == SelectSeq(selections, LAMBDA e : Len(e.val) # 1)
  IN  [complete |-> [i \in DOMAIN one |-> [key |-> one[i].key, val |-> one[i].val[1]]],
       incomplete |-> DictKeys(rest)]

get_note_by_title(ns, title) ==
  IF \E i \in DOMAIN ns : ns[i].title = title
  THEN ns[CHOOSE i \in DOMAIN ns : ns[i].title = title
                                   /\ \A j \in 1..(i - 1) : ns[j].title # title]
  ELSE NoneNote

\* the slip of using the lookup result without the test for None
SectionFor_unguarded(ns, note_title) ==
  LET note == get_note_by_title(ns, note_title) IN
  IF note = NoneNote
  THEN [raised |-> TRUE, lines |-> <<>>]
  ELSE [raised |-> FALSE, lines |-> <<H3(note_title), Text>> \o UncheckedOptions(note)]

\* rewrite_resolution_file, the loop body of lines 174-187: the lines one
\* incomplete title adds, and whether using the lookup result raised
SectionFor(ns, note_title) ==
  LET note == get_note_by_title(ns, note_title) IN
  IF note = NoneNote
  THEN [raised |-> FALSE, lines |-> <<>>]
  ELSE [raised |-> FALSE, lines |-> <<H3(note_title), Text>> \o UncheckedOptions(note)]

\* the slip of writing a section for every title read, complete or not
rewrite_resolution_file_all_sections(ns, complete, incomplete) ==
  LET titles == incomplete \o [i \in DOMAIN complete |-> complete[i].key]
      secs == [i \in DOMAIN titles |-> SectionFor(ns, titles[i])]
  IN  [raised |-> \E i \in DOMAIN secs : secs[i].raised,
       lines |-> <<Text, Rule, H2("INCOMPLETE - Needs Work")>>
                 \o Concat([i \in DOMAIN secs |-> secs[i].lines])
                 \o <<Rule, H2("COMPLETE - Already Selected"), Text>>
                 \o [i \in DOMAIN complete |-> Done(complete[i].key, complete[i].val)]
                 \o <<Rule, H2("Instructions"), Text>>]

rewrite_resolution_file(ns, complete, incomplete) ==
  LET secs == [i \in DOMAIN incomplete |-> SectionFor(ns, incomplete[i])]
  IN  [raised |-> \E i \in DOMAIN secs : secs[i].raised,
       lines |-> <<Text, Rule, H2("INCOMPLETE - Needs Work")>>
                 \o Concat([i \in DOMAIN secs |-> secs[i].lines])
                 \o <<Rule, H2("COMPLETE - Already Selected"), Text>>
                 \o [i \in DOMAIN complete |-> Done(complete[i].key, complete[i].val)]
                 \o <<Rule, H2("Instructions"), Text>>]

\* the slip of dropping the selected parent and keeping the others
apply_selections_keep_others(ns, selections) ==
  [i \in DOMAIN ns |->
     IF ~DictHas(selections, ns[i].title) THEN ns[i]
     ELSE LET selected_parent == DictGet(selections, ns[i].title)
          IN  [ns[i] EXCEPT !.parents = SelectSeq(@, LAMBDA p : p.title # selected_parent)]]

apply_selections(ns, selections) ==
  [i \in DOMAIN ns |->
     IF ~DictHas(selections, ns[i].title) THEN ns[i]
     ELSE LET selected_parent == DictGet(selections, ns[i].title)
          IN  [ns[i] EXCEPT !.parents = SelectSeq(@, LAMBDA p : p.title = selected_parent)]]

NoClass == [complete |-> <<>>, incomplete |-> <<>>]

\* transform(notes): the notes it returns, the checklist it leaves, the case taken
transform(ns, ex, lines) ==
  IF ~ex
  THEN IF Len(get_multi_parent_notes(ns)) = 0
       THEN [notes |-> ns, exists |-> FALSE, lines |-> <<>>, case |-> "nothing",
             class |-> NoClass, raised |-> FALSE]
       ELSE [notes |-> ns, exists |-> TRUE, lines |-> generate_resolution_file(ns),
             case |-> "generated", class |-> NoClass, raised |-> FALSE]
  ELSE LET class == categorize_selections(parse_resolution_file(ex, lines)) IN
       IF class.incomplete = <<>>
       THEN [notes |-> apply_selections(ns, class.complete), exists |-> FALSE,
             lines |-> <<>>, case |-> "applied", class |-> class, raised |-> FALSE]
       ELSE LET rw == rewrite_resolution_file(ns, class.complete, class.incomplete) IN
            IF rw.raised
            THEN [notes |-> ns, exists |-> TRUE, lines |-> lines, case |-> "rewritten",
                  class |-> class, raised |-> TRUE]
            ELSE [notes |-> ns, exists |-> TRUE, lines |-> rw.lines, case |-> "rewritten",
                  class |-> class, raised |-> FALSE]

----------------------------------------------------------------------------
(* State *)

\* output folders are named by the stage identifiers appended to the name of
\* the folder part 1 left: the sequence of the identifiers appended
Base == <<>>

NoRun ==
  [case |-> "none", end |-> "none", exit |-> 0, raised |-> "no", mem |-> <<>>, class |-> NoClass,
   pre |-> [exists |-> FALSE, lines |-> <<>>], wrote |-> FALSE, via |-> "none",
   prev |-> [ok |-> FALSE, class |-> NoClass]]

Idle ==
  [pc |-> "idle", idx |-> 0, current_input |-> Base, started |-> {},
   failed_transform |-> None, successful_transforms |-> 0]

NoFiles == [notes |-> <<>>, folders |-> {}]

\* no library function has been called
NoCall ==
  /\ raw = <<>>
  /\ safe = <<>>
  /\ checked = <<>>
  /\ messages = [called |-> FALSE, list |-> <<>>]

\* no batch has been handed to the parent-graph and path transforms
NoBatch ==
  /\ batch = <<>>
  /\ twin = <<>>
  /\ trail = <<>>
  /\ pre = [batch |-> <<>>, twin |-> <<>>]
  /\ written = NoFiles

Init ==
  /\ NoBatch
  /\ NoCall
  /\ notes \in Batches
  /\ exists = FALSE
  /\ content = <<>>
  /\ folders = {Base}
  /\ output = <<>>
  /\ last = NoRun
  /\ edits = 0
  /\ runs = 0
  /\ coop = "coop"
  /\ orch = Idle

----------------------------------------------------------------------------
(* J_resolve_multi_parents.py main(): one invocation of the stage.         *)
(* errors: validate_notes reported something; response: the answer typed   *)
(* at the prompt; saveOk: save_output did not fail (a failure is taken at  *)
(* its first step, folder.mkdir).  The exit status is the process's.       *)

StageResult(input_folder_name, errors, response, saveOk, via) ==
  IF input_folder_name \notin folders
  THEN [exists |-> exists, lines |-> content, saved |-> FALSE,
        run |-> [NoRun EXCEPT !.case = "noinput", !.end = "noinput", !.exit = 1,
                              !.via = via, !.mem = notes,
                              !.pre = [exists |-> exists, lines |-> content]]]
  ELSE
  LET r == transform(notes, exists, content)
      declined == errors /\ response # "y"
      saved == ~r.raised /\ ~r.exists /\ ~declined /\ saveOk
      raised == IF r.raised THEN "transform"
                ELSE IF ~r.exists /\ ~declined /\ ~saveOk THEN "save" ELSE "no"
      \* how the process ended: an uncaught exception (exit status 1),
      \* sys.exit(0) at line 310, sys.exit(1) at line 322, or the end of main()
      end == IF raised # "no" THEN "raised"
             ELSE IF r.exists THEN "suspended"
             ELSE IF declined THEN "declined" ELSE "saved"
      code == IF end \in {"raised", "declined"} THEN 1 ELSE 0
  IN  [exists |-> r.exists, lines |-> r.lines, saved |-> saved,
       run |-> [case |-> r.case, end |-> end, exit |-> code, raised |-> raised, mem |-> r.notes,
                class |-> r.class, pre |-> [exists |-> exists, lines |-> content],
                wrote |-> saved, via |-> via,
                prev |-> [ok |-> last.case \in {"applied", "rewritten"},
                          class |-> last.class]]]

Finish(input_folder_name, s) ==
  /\ exists' = s.exists
  /\ content' = s.lines
  /\ folders' = IF s.saved THEN folders \cup {Append(input_folder_name, SCRIPT_ID)}
                ELSE folders
  /\ output' = IF s.saved THEN s.run.mem ELSE output
  /\ last' = s.run
  /\ runs' = runs + 1
  /\ coop' = IF coop = "coop" /\ runs > 0 /\ last.case # "none" THEN "ticks" ELSE coop
  /\ UNCHANGED <<pvars, lvars, notes, edits>>

\* validate_notes, input() and save_output are reached only by a run that
\* found its input folder and left no checklist behind
ReachesValidation(input_folder_name) ==
  /\ input_folder_name \in folders
  /\ ~transform(notes, exists, content).exists

main(input_folder_name, via) ==
  IF ReachesValidation(input_folder_name)
  THEN \E errors \in BOOLEAN, response \in {"y", "n"}, saveOk \in BOOLEAN :
         Finish(input_folder_name,
                StageResult(input_folder_name, errors, response, saveOk, via))
  ELSE Finish(input_folder_name, StageResult(input_folder_name, FALSE, "y", TRUE, via))

\* the human runs the stage from the command line on the folder part 1 left
RunResolver ==
  /\ orch.pc = "idle"
  /\ runs < MaxRuns
  /\ main(Base, "cli")
  /\ UNCHANGED orch

----------------------------------------------------------------------------
(* The human editing resolve_multi_parents.md between two runs *)

IsHeader(line) == line.k \in {"h2", "h3"}

\* the header line a line is read under by a human: the nearest header above it
SectionOf(lines, i) ==
  IF \E j \in 1..i : IsHeader(lines[j])
  THEN CHOOSE j \in 1..i : IsHeader(lines[j]) /\ \A h \in (j + 1)..i : ~IsHeader(lines[h])
  ELSE 0

BoxesOf(lines, h) == {i \in DOMAIN lines : lines[i].k = "box" /\ SectionOf(lines, i) = h}

CheckedOf(lines, h) == {i \in BoxesOf(lines, h) : IsCheckedLine(lines[i])}

\* the sections that show options and do not have exactly one of them checked
OpenSections(lines) ==
  {h \in DOMAIN lines : IsHeader(lines[h]) /\ BoxesOf(lines, h) # {}
                        /\ Cardinality(CheckedOf(lines, h)) # 1}

\* what a human may type: a header that names a note or no note, a "###"
\* header, boxes with either mark, a title no parent has, a padded title
TypedLines ==
  {H2(NoteTitles[1]), H2(StaleTitle), H3(NoteTitles[1]),
   Box("x", ParentPool[1].title), Box("X", ParentPool[2].title), Box(" ", ParentPool[1].title),
   Box("x", StaleTitle), Box("x", " A "), Text}

TypedFiles == UNION {[1..n -> TypedLines] : n \in 0..MaxLines}

HumanEdit(newContent, level, cost) ==
  /\ orch.pc = "idle"
  /\ exists
  /\ edits + cost <= MaxEdits
  /\ content' = newContent
  /\ edits' = edits + cost
  /\ last' = NoRun
  /\ coop' = IF coop = "edited" THEN coop ELSE level
  /\ UNCHANGED <<pvars, lvars, notes, exists, folders, output, runs, orch>>

\* one box checked or unchecked
HumanTick ==
  \E i \in DOMAIN content, m \in Marks :
    /\ content[i].k = "box"
    /\ m # content[i].b
    /\ HumanEdit([content EXCEPT ![i].b = m], "ticks", 1)

\* one line removed (a line the parser or the reader takes for a header, an
\* option or a summary; removing prose changes nothing that is read)
HumanDelete ==
  \E i \in DOMAIN content :
    /\ content[i].k \in {"h2", "h3", "box", "done"}
    /\ HumanEdit(SubSeq(content, 1, i - 1) \o SubSeq(content, i + 1, Len(content)),
              "edited", 1)

\* the file saved with any content at all (what was in it before is lost, so
\* this is taken as the first edit after a run and uses up the edits)
HumanOverwrite ==
  /\ edits = 0
  /\ \E f \in TypedFiles : HumanEdit(f, "edited", MaxEdits)

\* the human following the instructions: exactly one box checked in every
\* section that is still open, nothing else touched
HumanCompleteAll ==
  /\ orch.pc = "idle"
  /\ exists
  /\ last.case \in {"generated", "rewritten"}
  /\ runs < MaxRuns
  /\ \E sec \in {[i \in DOMAIN content |-> SectionOf(content, i)]} :
     \E open \in {OpenSections(content)} :
     \E pick \in [open -> DOMAIN content] :
       /\ \A h \in open : content[pick[h]].k = "box" /\ sec[pick[h]] = h
       /\ content' = [i \in DOMAIN content |->
                        IF content[i].k = "box" /\ sec[i] \in open
                        THEN Box(IF pick[sec[i]] = i THEN "x" ELSE " ", content[i].a)
                        ELSE content[i]]
  /\ last' = NoRun
  /\ UNCHANGED <<pvars, lvars, notes, exists, folders, output, edits, runs, coop, orch>>

----------------------------------------------------------------------------
(* run_migration_2.py *)

\* TRANSFORM_PIPELINE with, for each script, whether transforms/ holds a file of
\* that name and the SCRIPT_ID that file appends to its input folder's name
TRANSFORM_PIPELINE ==
  << [id |-> "J",  script |-> "J_resolve_multi_parents.py", present |-> TRUE, script_id |-> SCRIPT_ID],
     [id |-> "K",  script |-> "K_strip_archive_from_multi.py", present |-> TRUE, script_id |-> "J"],
     [id |-> "L",  script |-> "L_resolve_multi_parents.py", present |-> FALSE, script_id |-> None],
     [id |-> "0A", script |-> "0A_inline_tasks_protected_parents.py", present |-> TRUE, script_id |-> "Z"],
     [id |-> "N",  script |-> "N_remove_archive_with_parent.py", present |-> FALSE, script_id |-> None],
     [id |-> "V",  script |-> "V_path_assignment_with_ordinals.py", present |-> FALSE, script_id |-> None],
     [id |-> "0B", script |-> "0B_fix_parked_leaves.py", present |-> TRUE, script_id |-> "0A"],
     [id |-> "0C", script |-> "0C_fix_done_leaves.py", present |-> TRUE, script_id |-> "0B"],
     [id |-> "Y",  script |-> "Y_folder_notes_with_metadata.py", present |-> FALSE, script_id |-> None] >>

\* main(), lines 120-151: the invocation starts on the folder part 1 left
OrchStart ==
  /\ orch.pc = "idle"
  /\ runs < MaxRuns
  /\ Base \in folders
  /\ orch' = [Idle EXCEPT !.pc = "loop", !.idx = 1]
  /\ UNCHANGED <<pvars, lvars, notes, exists, content, folders, output, last, edits, runs, coop>>

\* main(), lines 160-169, on what run_transform returned: None, or the name
\* it expects the stage to have written (input name + transform_id)
AfterStage(st, launched, returncode) ==
  LET began == IF launched THEN orch.started \cup {st.id} ELSE orch.started IN
  IF ~launched \/ returncode # 0
  THEN [orch EXCEPT !.pc = "done", !.started = began, !.failed_transform = st.id]
  ELSE [orch EXCEPT !.pc = IF orch.idx = Len(TRANSFORM_PIPELINE) THEN "done" ELSE "loop",
                    !.idx = orch.idx + 1,
                    !.started = began,
                    !.successful_transforms = @ + 1,
                    !.current_input = Append(orch.current_input, st.id)]

\* a stage other than the resolver, as far as its folders go: main() of
\* K_strip_archive_from_multi.py lines 84-114 (the other stages' main() alike)
OtherStage(st) ==
  IF orch.current_input \notin folders
  THEN /\ orch' = AfterStage(st, TRUE, 1)
       /\ UNCHANGED folders
  ELSE \E errors \in BOOLEAN, response \in {"y", "n"}, saveOk \in BOOLEAN :
         IF (errors /\ response # "y") \/ ~saveOk
         THEN /\ orch' = AfterStage(st, TRUE, 1)
              /\ UNCHANGED folders
         ELSE /\ orch' = AfterStage(st, TRUE, 0)
              /\ folders' = folders \cup {Append(orch.current_input, st.script_id)}

\* one turn of the loop of main(): run_transform on the next pipeline entry
OrchStage ==
  /\ orch.pc = "loop"
  /\ LET st == TRANSFORM_PIPELINE[orch.idx] IN
     IF ~st.present
     THEN /\ orch' = AfterStage(st, FALSE, 1)
          /\ UNCHANGED <<pvars, lvars, notes, exists, content, folders, output, last, edits, runs, coop>>
     ELSE IF st.id = "J"
     THEN /\ main(orch.current_input, "orch")
          /\ orch' = AfterStage(st, TRUE, last'.exit)
     ELSE /\ OtherStage(st)
          /\ UNCHANGED <<pvars, lvars, notes, exists, content, output, last, edits, runs, coop>>

\* main(), lines 171-187: the summary is printed and the process ends
OrchExit ==
  /\ orch.pc = "done"
  /\ orch' = Idle
  /\ UNCHANGED <<pvars, lvars, notes, exists, content, folders, output, last, edits, runs, coop>>

----------------------------------------------------------------------------
(* The checklist as a reader sees it: its sections and their options *)

Indexed(lines) == [i \in DOMAIN lines |-> [i |-> i, line |-> lines[i]]]

OptionsOf(lines, h) ==
  LET sel == SelectSeq(Indexed(lines),
                       LAMBDA e : e.line.k = "box" /\ SectionOf(lines, e.i) = h)
  IN  [j \in DOMAIN sel |-> sel[j].line]

Sections(lines) ==
  LET heads == SelectSeq(Indexed(lines), LAMBDA e : IsHeader(e.line))
  IN  [j \in DOMAIN heads |->
         [title |-> heads[j].line.a, at |-> heads[j].i,
          options |-> OptionsOf(lines, heads[j].i)]]

\* the sections that offer options
OptionSections(lines) ==
  LET secs == SelectSeq(Sections(lines), LAMBDA sc : sc.options # <<>>)
  IN  [j \in DOMAIN secs |-> [title |-> secs[j].title, options |-> secs[j].options]]

Titles(parents) == {parents[i].title : i \in DOMAIN parents}

\* the notes of the batch that have more than one parent
Ambiguous == SelectSeq(notes, LAMBDA n : Len(n.parents) > 1)

\* every parent title of n as an unchecked option, in parents order
AllUnchecked(n) == [i \in DOMAIN n.parents |-> [k |-> "box", a |-> n.parents[i].title, b |-> " "]]

\* what the run read in the checklist it found: per "## " section, the checked texts
Read == parse_resolution_file(last.pre.exists, last.pre.lines)

\* the state right after a run of the resolver stage
AfterRun == last.case \in {"nothing", "generated", "applied", "rewritten"}

\* the line below which a rewritten checklist summarises the completed notes
CompleteDivider(lines) ==
  IF \E i \in DOMAIN lines : lines[i] = H2("COMPLETE - Already Selected")
  THEN CHOOSE i \in DOMAIN lines : lines[i] = H2("COMPLETE - Already Selected")
                                   /\ \A j \in 1..(i - 1) : lines[j] # lines[i]
  ELSE Len(lines) + 1

\* note n is offered in the checklist: a section of its title, above the
\* summary of the completed notes, lists all its parents unchecked
Offered(lines, n) ==
  \E j \in DOMAIN Sections(lines) :
    /\ Sections(lines)[j].title = n.title
    /\ Sections(lines)[j].at < CompleteDivider(lines)
    /\ Sections(lines)[j].options = AllUnchecked(n)

----------------------------------------------------------------------------
(* Claims *)

\* C1 (resolver convergence).  Starting without a checklist from a batch with
\* N >= 1 notes of more than one parent, with the human checking exactly one
\* box in every open section after every run, the number of notes that still
\* need a selection falls with every run until it is zero and the checklist is
\* gone: so after N + 1 runs (the first one writes the checklist) the file
\* resolve_multi_parents.md does not exist.
C1_Convergence ==
  (coop = "coop" /\ AfterRun /\ Len(Ambiguous) >= 1 /\ runs > Len(Ambiguous)) => ~exists

\* the sections of the checklist that carry the title of a note with more than
\* one parent all have exactly one checked option, and each such note has one
AmbiguousSectionsComplete(lines) ==
  /\ \A i \in DOMAIN Ambiguous :
       \E h \in DOMAIN lines : IsHeader(lines[h]) /\ lines[h].a = Ambiguous[i].title
  /\ \A h \in DOMAIN lines :
       (IsHeader(lines[h]) /\ \E i \in DOMAIN Ambiguous : Ambiguous[i].title = lines[h].a)
         => Cardinality(CheckedOf(lines, h)) = 1

CheckedTitle(lines, title) ==
  LET h == CHOOSE h \in DOMAIN lines : IsHeader(lines[h]) /\ lines[h].a = title
      c == CHOOSE c \in CheckedOf(lines, h) : TRUE
  IN  lines[c].a

\* C2 (ARTIFACT_COMPLETE).  Whenever the resolver runs while the checklist
\* exists and every section of a note with more than one parent has exactly
\* one checked option (the human having changed nothing but checkboxes), the
\* run replaces each such note's parents by the one entry whose title is the
\* checked text, deletes the checklist and goes on to write the output batch.
C2_CompleteApplies ==
  (AfterRun /\ coop # "edited" /\ last.pre.exists /\ AmbiguousSectionsComplete(last.pre.lines))
    => /\ ~exists
       /\ last.end \in {"saved", "declined", "raised"}
       /\ \A i \in DOMAIN notes :
            Len(notes[i].parents) > 1 =>
              /\ Len(last.mem[i].parents) = 1
              /\ last.mem[i].parents[1] \in Range(notes[i].parents)
              /\ last.mem[i].parents[1].title = CheckedTitle(last.pre.lines, notes[i].title)

\* C3 (NO_ARTIFACT), as claimed.  A run that finds no checklist: (a) if no note
\* has more than one parent, all parents stay as they are, no checklist is
\* created and the output batch is written; (b) otherwise a checklist is
\* created with exactly one section per note of more than one parent, each
\* listing all the note's parent titles unchecked in parents order, and the
\* run ends with exit status 0 and without an output batch.
C3a_Claimed ==
  (AfterRun /\ ~last.pre.exists /\ Len(Ambiguous) = 0)
    => /\ last.mem = notes
       /\ ~exists
       /\ last.wrote
       /\ output = notes
       /\ Append(Base, SCRIPT_ID) \in folders

C3b_Generated ==
  (AfterRun /\ ~last.pre.exists /\ Len(Ambiguous) > 0)
    => /\ exists
       /\ OptionSections(content)
            = [i \in DOMAIN Ambiguous |->
                 [title |-> Ambiguous[i].title, options |-> AllUnchecked(Ambiguous[i])]]
       /\ last.exit = 0
       /\ last.end = "suspended"
       /\ ~last.wrote
       /\ last.mem = notes

C3_Witness_Generated ==
  /\ AfterRun /\ ~last.pre.exists /\ Len(Ambiguous) = 2 /\ exists
  /\ Len(OptionSections(content)) = 2
  /\ Len(OptionSections(content)[1].options) = 3

\* C4 (ARTIFACT_INCOMPLETE).  A run that finds at least one incomplete section
\* (the human having changed nothing but checkboxes) leaves all parents as
\* they are, writes no output batch and leaves a checklist in which every
\* note that still needs a selection is a section listing all its parents
\* unchecked, above the divider that summarises the completed notes.
C4_IncompleteRewrites ==
  (AfterRun /\ coop # "edited" /\ last.case = "rewritten")
    => /\ last.mem = notes
       /\ ~last.wrote
       /\ last.exit = 0
       /\ exists
       /\ \A i \in DOMAIN notes :
            (Len(notes[i].parents) > 1 /\ ~DictHas(last.class.complete, notes[i].title))
              => Offered(content, notes[i])

\* C5 (selection correctness).  When selections are applied to a note whose
\* parents hold an entry of the selected title (A, B, C and the selection B),
\* the note's parents afterwards is the one-element list of that original
\* entry, and that is what the stage saves.
C5_SelectionCorrect ==
  (AfterRun /\ last.case = "applied")
    => /\ \A i \in DOMAIN notes : \A p \in Range(notes[i].parents) :
            (DictHas(last.class.complete, notes[i].title)
             /\ DictGet(last.class.complete, notes[i].title) = p.title)
              => last.mem[i].parents = <<p>>
       /\ last.wrote => output = last.mem

C5_Witness ==
  /\ AfterRun /\ last.case = "applied" /\ last.wrote
  /\ notes[1].parents = SubSeq(ParentPool, 1, 3)
  /\ DictHas(last.class.complete, notes[1].title)
  /\ DictGet(last.class.complete, notes[1].title) = ParentPool[2].title
  /\ output[1].parents = <<ParentPool[2]>>

\* note i's section was read with exactly one checked text, and no parent of
\* the note has that title
StaleFor(i) ==
  /\ DictHas(Read, notes[i].title)
  /\ Len(DictGet(Read, notes[i].title)) = 1
  /\ DictGet(Read, notes[i].title)[1] \notin Titles(notes[i].parents)

\* C6 (stale selection).  When a section has exactly one checked line whose
\* text is none of the note's parent titles, the run treats the note as
\* incomplete: its parents stay as they are (never emptied) and the note is
\* offered again in the checklist.
C6_StaleReoffered ==
  (AfterRun /\ last.pre.exists)
    => \A i \in DOMAIN notes :
         (StaleFor(i) /\ Len(notes[i].parents) > 1)
           => /\ last.mem[i].parents = notes[i].parents
              /\ exists
              /\ Offered(content, notes[i])

\* how a run classified a note: complete with a parent, or not complete
NoteClass(class, title) ==
  IF DictHas(class.complete, title)
  THEN <<"complete", DictGet(class.complete, title)>>
  ELSE <<"incomplete">>

\* C7 (idempotent re-run).  Two runs in a row with no edit of the checklist
\* between them: the second classifies every note as the first did, complete
\* with the same parent or incomplete.
C7_RerunSameClass ==
  (AfterRun /\ coop # "edited" /\ last.prev.ok /\ last.case \in {"applied", "rewritten"})
    => \A i \in DOMAIN notes :
         NoteClass(last.class, notes[i].title) = NoteClass(last.prev.class, notes[i].title)

\* note i has two parents and its "## " section was read with exactly the
\* first of them checked
OneOfTwo(i) ==
  /\ last.pre.exists
  /\ Len(notes[i].parents) = 2
  /\ DictHas(Read, notes[i].title)
  /\ DictGet(Read, notes[i].title) = <<notes[i].parents[1].title>>

\* a section of that title stands among the sections to be worked on
ListedIncomplete(lines, title) ==
  \E j \in DOMAIN Sections(lines) :
    Sections(lines)[j].title = title /\ Sections(lines)[j].at < CompleteDivider(lines)

\* one state the other notes' sections can be in: another note with more than
\* one parent has a section that was read with no checked option
OtherOpen(i) ==
  \E j \in DOMAIN notes :
    /\ j # i
    /\ Len(notes[j].parents) > 1
    /\ DictHas(Read, notes[j].title)
    /\ DictGet(Read, notes[j].title) = <<>>

C9_NeverRaises ==
  (AfterRun /\ last.pre.exists)
    => /\ last.raised # "transform"
       /\ \/ /\ last.case = "rewritten" /\ exists /\ last.end = "suspended"
             /\ last.exit = 0 /\ ~last.wrote
          \/ /\ last.case = "applied" /\ ~exists
             /\ last.end \in {"saved", "declined", "raised"}

\* a run on a checklist whose only section names no note and has two checked
\* lines of a title no note has as a parent
C9_Witness ==
  /\ AfterRun /\ last.pre.exists /\ coop = "edited"
  /\ last.pre.lines = <<[k |-> "h2", a |-> StaleTitle, b |-> ""],
                        [k |-> "box", a |-> StaleTitle, b |-> "x"]>>
  /\ last.case = "applied"

C9_Witness_Rewritten ==
  /\ AfterRun /\ last.pre.exists /\ coop = "edited"
  /\ \E j \in DOMAIN last.class.incomplete :
       \A i \in DOMAIN notes : notes[i].title # last.class.incomplete[j]
  /\ last.pre.lines[1] = [k |-> "h2", a |-> StaleTitle, b |-> ""]
  /\ last.case = "rewritten"

\* C10 (suspension halts the pipeline).  When the resolver stage run by
\* run_migration_2 ends suspended (checklist present, no output batch, exit
\* status 0), the orchestrator starts no later stage in that invocation.
C10_SuspensionHalts ==
  (orch.pc # "idle" /\ last.via = "orch" /\ last.end = "suspended" /\ exists
   /\ ~last.wrote /\ last.exit = 0)
    => orch.started \subseteq {"J"}

Next ==
  \/ RunResolver
  \/ HumanTick
  \/ HumanDelete
  \/ HumanOverwrite
  \/ HumanCompleteAll
  \/ OrchStart
  \/ OrchStage
  \/ OrchExit

Spec == Init /\ [][Next]_vars

----------------------------------------------------------------------------
(* The parent graph and the output paths.                                  *)
(* A note is [id, title, tags, para_folder, parents, output_path]: the     *)
(* last three are the entries of Note.metadata the transforms read and     *)
(* write.  An absent "parents" reads as [] and an absent "output_path" as  *)
(* "" everywhere they are read (metadata.get with these defaults, or a     *)
(* truth test), so absent and empty are one value here.  A path is the     *)
(* sequence of its "/"-separated segments: "Areas/Home" is                 *)
(* <<"Areas", "Home">>, "." is <<".">> and "" is <<>>.  No segment holds a *)
(* "/": every segment is a sanitized name or a name the code writes.       *)

PARA_FOLDERS == <<"Projects", "Areas", "Resources", "Archive">>

\* 4_assign_para_folder.py: PARA_TAGS in its order, and FALLBACK_FOLDER
PARA_TAGS == << <<"Project", "Projects">>, <<"Area", "Areas">>, <<"ResourceTopic", "Resources">> >>
FALLBACK_FOLDER == "Archive"

\* U_assign_paths_with_ordinals.py: PARA_ORDINALS
PARA_ORDINALS(name) ==
  CASE name = "Projects" -> "1 Projects"
    [] name = "Areas" -> "2 Areas"
    [] name = "Resources" -> "3 Resources"
    [] name = "Archive" -> "4 Archive"

NoPath == <<>>
RootPath == <<".">>

Has(seq, x) == \E i \in DOMAIN seq : seq[i] = x

\* sanitize_folder_name on the names of this model: "/" and the other
\* characters no folder name may hold become "_", trailing dots and blanks
\* go, and an empty result is "untitled"
sanitize_folder_name(name) ==
  CASE name = "Q/A" -> "Q_A"
    [] name = "Etc." -> "Etc"
    [] name = "..." -> "untitled"
    [] OTHER -> name

NoteId(title) == "id:" \o title

ExtractedNote(title, tags) ==
  [id |-> NoteId(title), title |-> title, tags |-> tags, para_folder |-> None,
   parents |-> <<>>, output_path |-> NoPath]

\* build_title_index: the note a title leads to (the last one of that title)
build_title_index(ns, title) ==
  LET at == {i \in DOMAIN ns : ns[i].title = title}
  IN  ns[CHOOSE i \in at : \A j \in at : j <= i]

HasTitle(ns, title) == \E i \in DOMAIN ns : ns[i].title = title

\* 4_assign_para_folder.py
assign_para_folder(note) ==
  LET hits == {k \in DOMAIN PARA_TAGS : Has(note.tags, PARA_TAGS[k][1])}
  IN  IF hits = {} THEN FALLBACK_FOLDER
      ELSE PARA_TAGS[CHOOSE k \in hits : \A j \in hits : k <= j][2]

transform_4(ns) == [i \in DOMAIN ns |-> [ns[i] EXCEPT !.para_folder = assign_para_folder(ns[i])]]

\* 2_identify_parents.py: one entry per tag that is a title, nothing skipped
\* (its entries have no "type")
RECURSIVE TagParents(_, _, _)
TagParents(ns, tags, k) ==
  IF k > Len(tags) THEN <<>>
  ELSE (IF HasTitle(ns, tags[k])
        THEN <<[id |-> build_title_index(ns, tags[k]).id, title |-> tags[k], type |-> None]>>
        ELSE <<>>) \o TagParents(ns, tags, k + 1)

identify_parents(ns) ==
  [i \in DOMAIN ns |->
     LET parents == TagParents(ns, ns[i].tags, 1)
     IN  IF parents # <<>> THEN [ns[i] EXCEPT !.parents = parents] ELSE ns[i]]

\* 5_identify_para_parents.py, the loop over the tags of one note (lines 83-93)
RECURSIVE TagParentsDeduped(_, _, _, _)
TagParentsDeduped(ns, tags, k, parents) ==
  IF k > Len(tags) THEN parents
  ELSE IF HasTitle(ns, tags[k]) /\ ~\E j \in DOMAIN parents : parents[j].title = tags[k]
       THEN TagParentsDeduped(ns, tags, k + 1,
              Append(parents, [id |-> build_title_index(ns, tags[k]).id,
                               title |-> tags[k], type |-> "note"]))
       ELSE TagParentsDeduped(ns, tags, k + 1, parents)

ParaEntry(para_folder) == [id |-> para_folder, title |-> para_folder, type |-> "para_folder"]

\* the slip of putting the category entry behind the entries of the tags
identify_parents_with_para_category_last(ns) ==
  [i \in DOMAIN ns |->
     LET fromTags == TagParentsDeduped(ns, ns[i].tags, 1, <<>>)
         parents == IF ns[i].para_folder # None /\ ~\E j \in DOMAIN fromTags :
                                                      fromTags[j].title = ns[i].para_folder
                    THEN Append(fromTags, ParaEntry(ns[i].para_folder))
                    ELSE fromTags
     IN  IF parents # <<>> THEN [ns[i] EXCEPT !.parents = parents] ELSE ns[i]]

identify_parents_with_para(ns) ==
  [i \in DOMAIN ns |->
     LET first == IF ns[i].para_folder # None THEN <<ParaEntry(ns[i].para_folder)>> ELSE <<>>
         parents == TagParentsDeduped(ns, ns[i].tags, 1, first)
     IN  IF parents # <<>> THEN [ns[i] EXCEPT !.parents = parents] ELSE ns[i]]

\* B_assign_orphan_tasks.py: the collector note and the entry that names it
create_orphan_tasks_note ==
  [id |-> "orphan-tasks", title |-> "Orphan Tasks", tags |-> <<"Task">>,
   para_folder |-> "Archive",
   parents |-> <<[id |-> "Organization", title |-> "Organization", type |-> "note"]>>,
   output_path |-> NoPath]

assign_orphans(ns) ==
  Append([i \in DOMAIN ns |->
            IF Has(ns[i].tags, "Task") /\ ns[i].parents = <<>>
            THEN [ns[i] EXCEPT !.parents =
                    <<[id |-> "orphan-tasks", title |-> "Orphan Tasks", type |-> "orphan_collector"]>>]
            ELSE ns[i]],
         create_orphan_tasks_note)

\* the slip of leaving Archive where it is the first entry
strip_archive_from_multi_keep_first(ns) ==
  [i \in DOMAIN ns |->
     IF Len(ns[i].parents) <= 1 THEN ns[i]
     ELSE IF ns[i].parents[1].title = "Archive" THEN ns[i]
     ELSE [ns[i] EXCEPT !.parents = SelectSeq(@, LAMBDA p : p.title # "Archive")]]

\* K_strip_archive_from_multi.py
strip_archive_from_multi(ns) ==
  [i \in DOMAIN ns |->
     IF Len(ns[i].parents) <= 1 THEN ns[i]
     ELSE IF \E j \in DOMAIN ns[i].parents : ns[i].parents[j].title = "Archive"
     THEN [ns[i] EXCEPT !.parents = SelectSeq(@, LAMBDA p : p.title # "Archive")]
     ELSE ns[i]]

----------------------------------------------------------------------------
(* P_assign_full_paths.py *)

\* build_parent_tree and para_map as they are read: .get(title) is None for a
\* title no note has
\* the slip of taking the last parent for the primary one
parent_map_last_parent(ns, title) ==
  IF ~HasTitle(ns, title) THEN None
  ELSE LET parents == build_title_index(ns, title).parents
       IN  IF parents # <<>> THEN parents[Len(parents)].title ELSE None

parent_map(ns, title) ==
  IF ~HasTitle(ns, title) THEN None
  ELSE LET parents == build_title_index(ns, title).parents
       IN  IF parents # <<>> THEN parents[1].title ELSE None

para_map(ns, title) ==
  IF ~HasTitle(ns, title) THEN None ELSE build_title_index(ns, title).para_folder

\* the slip of stopping the walk at a title only on its third visit
RECURSIVE get_full_path_second_visit(_, _, _)
get_full_path_second_visit(ns, note_title, visited) ==
  IF Len(SelectSeq(visited, LAMBDA t : t = note_title)) >= 2
  THEN [path |-> <<sanitize_folder_name(note_title)>>, steps |-> 0]
  ELSE LET parent_title == parent_map(ns, note_title) IN
       IF parent_title = None
       THEN [path |-> IF para_map(ns, note_title) # None
                      THEN <<sanitize_folder_name(para_map(ns, note_title))>>
                      ELSE RootPath,
             steps |-> 0]
       ELSE IF Has(PARA_FOLDERS, parent_title)
       THEN [path |-> <<sanitize_folder_name(parent_title)>>, steps |-> 0]
       ELSE LET up == get_full_path_second_visit(ns, parent_title, Append(visited, note_title))
            IN  [path |-> IF up.path = RootPath
                          THEN <<sanitize_folder_name(parent_title)>>
                          ELSE Append(up.path, sanitize_folder_name(parent_title)),
                 steps |-> up.steps + 1]

\* get_full_path: the path, and the number of recursive calls made for it.
\* visited holds the titles the walk has been at (the code's set, copied at
\* each call).
RECURSIVE get_full_path(_, _, _)
get_full_path(ns, note_title, visited) ==
  IF Has(visited, note_title)
  THEN [path |-> <<sanitize_folder_name(note_title)>>, steps |-> 0]
  ELSE LET parent_title == parent_map(ns, note_title) IN
       IF parent_title = None
       THEN [path |-> IF para_map(ns, note_title) # None
                      THEN <<sanitize_folder_name(para_map(ns, note_title))>>
                      ELSE RootPath,
             steps |-> 0]
       ELSE IF Has(PARA_FOLDERS, parent_title)
       THEN [path |-> <<sanitize_folder_name(parent_title)>>, steps |-> 0]
       ELSE LET up == get_full_path(ns, parent_title, Append(visited, note_title))
            IN  [path |-> IF up.path = RootPath
                          THEN <<sanitize_folder_name(parent_title)>>
                          ELSE Append(up.path, sanitize_folder_name(parent_title)),
                 steps |-> up.steps + 1]

assign_full_paths(ns) ==
  [i \in DOMAIN ns |-> [ns[i] EXCEPT !.output_path = get_full_path(ns, ns[i].title, <<>>).path]]

----------------------------------------------------------------------------
(* U_path_assignment_ordered.py and U_assign_paths_with_ordinals.py *)

\* get_full_path_for_parent (U_assign_paths_with_ordinals.py) and get_full_path
\* (U_path_assignment_ordered.py) are line for line P's get_full_path
get_full_path_for_parent(ns, note_title, visited) == get_full_path(ns, note_title, visited)

\* the titles that are some note's first parent
all_parents(ns) ==
  {ns[i].title : i \in {j \in DOMAIN ns : \E k \in DOMAIN ns : parent_map(ns, ns[k].title) = ns[j].title}}

step1_assign_parent_paths(ns) ==
  [i \in DOMAIN ns |->
     IF ns[i].title \in all_parents(ns)
     THEN [ns[i] EXCEPT !.output_path = get_full_path_for_parent(ns, ns[i].title, <<>>).path]
     ELSE ns[i]]

\* step 2 of both U transforms (the same lines in both)
ReorganizeNote(note) ==
  IF ~Has(note.tags, "Project") THEN note
  ELSE IF note.output_path # <<"Projects">> THEN note
  ELSE IF Has(note.tags, "Parked")
  THEN [note EXCEPT !.output_path = <<"Projects", "z_Parked">>, !.para_folder = "Projects"]
  ELSE IF Has(note.tags, "Done")
  THEN [note EXCEPT !.output_path = <<"Archive">>, !.para_folder = "Archive"]
  ELSE note

step2_apply_project_reorganization(ns) == [i \in DOMAIN ns |-> ReorganizeNote(ns[i])]

\* next((n for n in notes if n.title == parent_title), None)
FirstNote(ns, title) ==
  LET at == {i \in DOMAIN ns : ns[i].title = title}
  IN  ns[CHOOSE i \in at : \A j \in at : i <= j]

\* the path of a leaf with no usable parent: its PARA folder, or the root
ParaOrRoot(note) ==
  IF note.para_folder # None THEN <<sanitize_folder_name(note.para_folder)>> ELSE RootPath

\* a leaf below the note that is its first parent, where that note has a path
LeafUnderNote(ns, note) ==
  LET parent_title == note.parents[1].title IN
  IF HasTitle(ns, parent_title) /\ FirstNote(ns, parent_title).output_path # NoPath
  THEN Append(FirstNote(ns, parent_title).output_path, sanitize_folder_name(parent_title))
  ELSE ParaOrRoot(note)

\* step 3 of U_path_assignment_ordered.py, taken at the parents' set of step 1
step3_assign_leaf_paths_ordered(ns, parents_set) ==
  [i \in DOMAIN ns |->
     IF ns[i].title \in parents_set THEN ns[i]
     ELSE IF ns[i].parents = <<>> THEN [ns[i] EXCEPT !.output_path = ParaOrRoot(ns[i])]
     ELSE [ns[i] EXCEPT !.output_path = LeafUnderNote(ns, ns[i])]]

\* step 3 of U_assign_paths_with_ordinals.py: a PARA folder as first parent
\* is taken directly
step3_assign_leaf_paths(ns, parents_set) ==
  [i \in DOMAIN ns |->
     IF ns[i].title \in parents_set THEN ns[i]
     ELSE IF ns[i].parents = <<>> THEN [ns[i] EXCEPT !.output_path = ParaOrRoot(ns[i])]
     ELSE IF Has(PARA_FOLDERS, ns[i].parents[1].title)
     THEN [ns[i] EXCEPT !.output_path = <<sanitize_folder_name(ns[i].parents[1].title)>>]
     ELSE [ns[i] EXCEPT !.output_path = LeafUnderNote(ns, ns[i])]]

\* the slip of returning the ordinal name alone
get_ordinal_path_root_only(path) ==
  IF path = NoPath \/ path = RootPath THEN path
  ELSE IF Has(PARA_FOLDERS, path[1]) THEN <<PARA_ORDINALS(path[1])>>
  ELSE path

get_ordinal_path(path) ==
  IF path = NoPath \/ path = RootPath THEN path
  ELSE IF Has(PARA_FOLDERS, path[1]) THEN [path EXCEPT ![1] = PARA_ORDINALS(path[1])]
  ELSE path

step4_apply_ordinals(ns) ==
  [i \in DOMAIN ns |->
     IF ns[i].output_path # RootPath
     THEN [ns[i] EXCEPT !.output_path = get_ordinal_path(ns[i].output_path)]
     ELSE ns[i]]

transform_U_ordered(ns) ==
  LET parents_set == all_parents(ns) IN
  step3_assign_leaf_paths_ordered(
    step2_apply_project_reorganization(step1_assign_parent_paths(ns)), parents_set)

\* transform() up to step 3
steps_1_to_3(ns) ==
  LET parents_set == all_parents(ns) IN
  step3_assign_leaf_paths(
    step2_apply_project_reorganization(step1_assign_parent_paths(ns)), parents_set)

transform_U(ns) == step4_apply_ordinals(steps_1_to_3(ns))

----------------------------------------------------------------------------
(* T_reorganize_projects.py, 0B_fix_parked_leaves.py, 0C_fix_done_leaves.py *)

\* word in segment, for the words the code looks for and the names a segment
\* can be here: the word itself or the word behind its ordinal
InSegment(word, segment) ==
  \/ segment = word
  \/ Has(PARA_FOLDERS, word) /\ segment = PARA_ORDINALS(word)

InPath(word, path) == \E k \in DOMAIN path : InSegment(word, path[k])

\* current_path == "Projects" or current_path.startswith("Projects/") and
\* "/" not in current_path.replace("Projects/", ""): a "/" is left only
\* behind a segment that does not end in "Projects"
InProjects(path) ==
  \/ path = <<"Projects">>
  \/ /\ Len(path) >= 2
     /\ path[1] = "Projects"
     /\ \A k \in 1..(Len(path) - 1) : InSegment("Projects", path[k])

reorganize_projects(ns) ==
  [i \in DOMAIN ns |->
     IF ~Has(ns[i].tags, "Project") THEN ns[i]
     ELSE IF ~InProjects(ns[i].output_path) THEN ns[i]
     ELSE IF Has(ns[i].tags, "Parked")
     THEN [ns[i] EXCEPT !.output_path = <<"Projects", "z_Parked">>, !.para_folder = "Projects"]
     ELSE IF Has(ns[i].tags, "Done")
     THEN [ns[i] EXCEPT !.output_path = <<"Archive">>, !.para_folder = "Archive"]
     ELSE ns[i]]

\* every title that is an entry of some note's parents
referenced_parents(ns) ==
  UNION {{ns[i].parents[j].title : j \in DOMAIN ns[i].parents} : i \in DOMAIN ns}

\* current_path.replace("Projects", "Projects/z_Parked", 1)
ReplaceFirstProjects(path) ==
  LET k == CHOOSE a \in DOMAIN path :
             InSegment("Projects", path[a]) /\ \A b \in 1..(a - 1) : ~InSegment("Projects", path[b])
  IN  SubSeq(path, 1, k) \o <<"z_Parked">> \o SubSeq(path, k + 1, Len(path))

\* the slip of fix_parked_leaves: a note already in z_Parked is not skipped
fix_parked_leaves_no_skip(ns) ==
  [i \in DOMAIN ns |->
     IF ~Has(ns[i].tags, "Parked") \/ ~Has(ns[i].tags, "Project") THEN ns[i]
     ELSE IF ns[i].title \in referenced_parents(ns) THEN ns[i]
     ELSE IF InPath("Projects", ns[i].output_path)
     THEN [ns[i] EXCEPT !.output_path = ReplaceFirstProjects(@)]
     ELSE ns[i]]

fix_parked_leaves(ns) ==
  [i \in DOMAIN ns |->
     IF ~Has(ns[i].tags, "Parked") \/ ~Has(ns[i].tags, "Project") THEN ns[i]
     ELSE IF ns[i].title \in referenced_parents(ns) THEN ns[i]
     ELSE IF InPath("z_Parked", ns[i].output_path) THEN ns[i]
     ELSE IF InPath("Projects", ns[i].output_path)
     THEN [ns[i] EXCEPT !.output_path = ReplaceFirstProjects(@)]
     ELSE ns[i]]

fix_done_leaves(ns) ==
  [i \in DOMAIN ns |->
     IF ~Has(ns[i].tags, "Done") \/ ~Has(ns[i].tags, "Project") THEN ns[i]
     ELSE IF ns[i].title \in referenced_parents(ns) THEN ns[i]
     ELSE IF InPath("Archive", ns[i].output_path) THEN ns[i]
     ELSE IF InPath("Projects", ns[i].output_path)
     THEN [ns[i] EXCEPT !.output_path = <<"4 Archive">>, !.para_folder = "Archive"]
     ELSE ns[i]]

----------------------------------------------------------------------------
(* M_remove_archive_with_parent.py *)

\* the slip of remove_archive_with_parent: the parents are not looked at
remove_archive_with_parent_any(ns) ==
  [i \in DOMAIN ns |->
     IF ns[i].para_folder # "Archive" THEN ns[i]
     ELSE [ns[i] EXCEPT !.para_folder = None]]

\* del note.metadata["para_folder"] leaves the note without the key
remove_archive_with_parent(ns) ==
  [i \in DOMAIN ns |->
     IF ns[i].para_folder # "Archive" THEN ns[i]
     ELSE IF ns[i].parents = <<>> THEN ns[i]
     ELSE [ns[i] EXCEPT !.para_folder = None]]

----------------------------------------------------------------------------
(* X_folder_notes_with_metadata.py *)

\* note.metadata.get("output_path", "."); "." names no folder
PathOrDot(note) == IF note.output_path = NoPath THEN RootPath ELSE note.output_path

\* every output_path but "." and every proper prefix of it
folder_paths(ns) ==
  UNION {{SubSeq(PathOrDot(ns[i]), 1, k) : k \in 1..Len(PathOrDot(ns[i]))} :
           i \in {j \in DOMAIN ns : PathOrDot(ns[j]) # RootPath}}

\* the last segment of every folder path
folder_names(ns) == {fp[Len(fp)] : fp \in folder_paths(ns)}

is_folder_note(ns, note) == note.title \in folder_names(ns)

\* the file of a note of the batch: a folder note goes into a folder of its
\* own title below its output_path
NoteFile(ns, note) ==
  [title |-> note.title,
   is_folder_note |-> is_folder_note(ns, note),
   file_path |->
     (IF PathOrDot(note) = RootPath THEN <<>> ELSE PathOrDot(note))
       \o (IF is_folder_note(ns, note) THEN <<note.title>> ELSE <<>>)
       \o <<sanitize_folder_name(note.title) \o ".md">>]

\* the folder names no note of the batch bears get a minimal folder note,
\* written below the first folder path found to end in the name
folders_needing_notes(ns) == folder_names(ns) \ {ns[i].title : i \in DOMAIN ns}

\* the results the writer can leave: the order in which the set of folder
\* paths is walked decides which path a minimal folder note is written below
write_final_structure(ns) ==
  {[notes |-> [i \in DOMAIN ns |-> NoteFile(ns, ns[i])],
    folders |-> {[title |-> name,
                  is_folder_note |-> TRUE,
                  file_path |-> pick[name] \o <<name, sanitize_folder_name(name) \o ".md">>] :
                   name \in folders_needing_notes(ns)}] :
     pick \in {f \in [folders_needing_notes(ns) -> folder_paths(ns)] :
                \A name \in folders_needing_notes(ns) : f[name][Len(f[name])] = name}}

----------------------------------------------------------------------------
(* The batches the extraction leaves, and the stages run on them *)

MaxSteps == 4
CycleLen == 5

\* two notes with every pair of these tag lists, or the first of them alone
TagLists ==
  { <<>>, <<"Home">>, <<"Groceries">>, <<"Home", "Home">>, <<"Groceries", "Home">>,
    <<"Nowhere">>, <<"Area">>, <<"Area", "Groceries">>, <<"Task">>,
    <<"Project">>, <<"Project", "Parked">>, <<"Project", "Done">>,
    <<"Project", "Home">>, <<"Project", "Parked", "Home">>, <<"Project", "Done", "Home">> }

PairBatches ==
  {<<ExtractedNote("Home", t)>> : t \in TagLists}
    \cup {<<ExtractedNote("Groceries", t[1]), ExtractedNote("Home", t[2])>> : t \in TagLists \X TagLists}

\* a note whose title is a PARA folder's name
FolderNameBatches ==
  {<<ExtractedNote("Projects", t[1]), ExtractedNote("Home", t[2])>> :
     t \in {<<>>, <<"Project">>, <<"Home">>} \X {<<"Projects">>, <<"Project", "Projects">>, <<"Area", "Projects">>}}

\* three notes in a chain, the top one with a status, and titles that
\* sanitizing changes
ChainBatches ==
  {<<ExtractedNote("Foo", t), ExtractedNote("Bar", <<"Foo">>), ExtractedNote("Baz", <<"Bar">>)>> :
     t \in {<<>>, <<"Project">>, <<"Project", "Parked">>, <<"Project", "Done">>, <<"Area">>}}
    \cup {<<ExtractedNote("Q/A", t), ExtractedNote("Etc.", <<"Q/A">>), ExtractedNote("...", <<"Etc.">>)>> :
            t \in {<<>>, <<"Area">>}}

\* CycleLen notes, each tagged with the title of the next
CycleTitle(k) == "N" \o ToString(k)
CycleBatches ==
  {[k \in 1..CycleLen |-> ExtractedNote(CycleTitle(k), t \o <<CycleTitle((k % CycleLen) + 1)>>)] :
     t \in {<<>>, <<"Project">>}}

ExtractedBatches == PairBatches \cup FolderNameBatches \cup ChainBatches \cup CycleBatches

rvars == <<notes, exists, content, folders, output, last, edits, runs, coop, orch>>

\* the resolver and the orchestrator are not running
ResolverAtRest ==
  /\ notes = <<>>
  /\ exists = FALSE
  /\ content = <<>>
  /\ folders = {Base}
  /\ output = <<>>
  /\ last = NoRun
  /\ edits = 0
  /\ runs = 0
  /\ coop = "coop"
  /\ orch = Idle

InitPaths ==
  /\ ResolverAtRest
  /\ NoCall
  /\ batch \in ExtractedBatches
  /\ twin = batch
  /\ trail = <<>>
  /\ pre = [batch |-> batch, twin |-> batch]
  /\ written = NoFiles

\* the place of a stage in the order the pipelines run them (run_migration.py,
\* run_migration_1.py, run_migration_2.py, and the folder names of the
\* scripts' usage lines): a stage runs after the stages before it, any of
\* which may have been left out
Rank(op) ==
  CASE op = "4" -> 1
    [] op \in {"2", "5"} -> 2
    [] op = "B" -> 3
    [] op = "K" -> 4
    [] op = "M" -> 5
    [] op = "P" -> 6
    [] op = "T" -> 7
    [] op \in {"U_ordered", "U"} -> 8
    [] op = "0B" -> 9
    [] op = "0C" -> 10
    [] op = "X" -> 11

\* a path or reclassification stage may be run again on its own output
MayRun(op) ==
  /\ Len(trail) < MaxSteps
  /\ IF trail = <<>> THEN TRUE
     ELSE IF Rank(trail[Len(trail)]) < Rank(op) THEN TRUE
     ELSE trail[Len(trail)] = op /\ Rank(op) >= Rank("P")

Stage(op, after, twinAfter) ==
  /\ MayRun(op)
  /\ batch' = after
  /\ twin' = twinAfter
  /\ trail' = Append(trail, op)
  /\ pre' = [batch |-> batch, twin |-> twin]
  /\ UNCHANGED written
  /\ UNCHANGED <<rvars, lvars>>

Run4 == Stage("4", transform_4(batch), transform_4(twin))
Run2 == Stage("2", identify_parents(batch), identify_parents(twin))
Run5 == Stage("5", identify_parents_with_para(batch), identify_parents_with_para(twin))
RunB == Stage("B", assign_orphans(batch), assign_orphans(twin))
RunK == Stage("K", strip_archive_from_multi(batch), strip_archive_from_multi(twin))
RunM == Stage("M", remove_archive_with_parent(batch), remove_archive_with_parent(twin))
\* the twin is the batch of the pipeline that leaves this stage out
RunP == \E both \in BOOLEAN :
          Stage("P", assign_full_paths(batch), IF both THEN assign_full_paths(twin) ELSE twin)
RunT == Stage("T", reorganize_projects(batch), reorganize_projects(twin))
RunU_ordered == Stage("U_ordered", transform_U_ordered(batch), transform_U_ordered(twin))
RunU == Stage("U", transform_U(batch), transform_U(twin))
Run0B == Stage("0B", fix_parked_leaves(batch), fix_parked_leaves(twin))
Run0C == Stage("0C", fix_done_leaves(batch), fix_done_leaves(twin))
\* the writer leaves the notes' parents, category and output_path as they are
RunX ==
  /\ MayRun("X")
  /\ written' \in write_final_structure(batch)
  /\ trail' = Append(trail, "X")
  /\ pre' = [batch |-> batch, twin |-> twin]
  /\ UNCHANGED <<batch, twin>>
  /\ UNCHANGED <<rvars, lvars>>

NextPaths ==
  \/ Run4
  \/ Run2
  \/ Run5
  \/ RunB
  \/ RunK
  \/ RunM
  \/ RunP
  \/ RunT
  \/ RunU_ordered
  \/ RunU
  \/ Run0B
  \/ Run0C
  \/ RunX

SpecPaths == InitPaths /\ [][NextPaths]_vars

----------------------------------------------------------------------------
(* Claims on the parent graph and the output paths *)

LastOp == IF trail = <<>> THEN None ELSE trail[Len(trail)]

JustRan(ops) == LastOp \in ops

UniqueTitles(ns) == \A i, j \in DOMAIN ns : ns[i].title = ns[j].title => i = j

\* the note of a title in a batch of unique titles, and its place
PlaceOf(ns, title) == CHOOSE i \in DOMAIN ns : ns[i].title = title

\* C11 (no self-parent).  After the parent graph is built by
\* identify_parents_with_para or identify_parents, no note's parents holds an
\* entry whose title is the note's own title, also when the note carries its
\* own title as a tag.
C11_NoSelfParent ==
  JustRan({"2", "5"}) =>
    \A i \in DOMAIN batch : \A j \in DOMAIN batch[i].parents :
      batch[i].parents[j].title # batch[i].title

\* what the parents of a note have to be, by title and kind: the category,
\* then the tags that are titles, each title at its first place only
Candidates(ns, note) ==
  (IF note.para_folder # None THEN <<[title |-> note.para_folder, type |-> "para_folder"]>> ELSE <<>>)
    \o [k \in DOMAIN SelectSeq(note.tags, LAMBDA t : \E i \in DOMAIN ns : ns[i].title = t) |->
          [title |-> SelectSeq(note.tags, LAMBDA t : \E i \in DOMAIN ns : ns[i].title = t)[k],
           type |-> "note"]]

RECURSIVE FirstOccurrences(_)
FirstOccurrences(seq) ==
  IF seq = <<>> THEN <<>>
  ELSE LET front == FirstOccurrences(SubSeq(seq, 1, Len(seq) - 1))
           x == seq[Len(seq)]
       IN  IF \E k \in DOMAIN front : front[k].title = x.title THEN front ELSE Append(front, x)

TitlesAndTypes(parents) == [k \in DOMAIN parents |-> [title |-> parents[k].title, type |-> parents[k].type]]

\* C12 (parent graph construction).  identify_parents_with_para gives every
\* note the parents: its category entry first, then one note entry for each
\* tag that is a note title, in tag order, an entry being skipped when its
\* title is already in the list; no two entries of a list share a title; a
\* tag that is no title adds nothing; the category is not changed.
C12_ParentGraph ==
  JustRan({"5"}) =>
    \A i \in DOMAIN batch :
      /\ TitlesAndTypes(batch[i].parents) = FirstOccurrences(Candidates(pre.batch, pre.batch[i]))
      /\ \A j, k \in DOMAIN batch[i].parents :
           batch[i].parents[j].title = batch[i].parents[k].title => j = k
      /\ batch[i].para_folder = pre.batch[i].para_folder
      /\ batch[i].tags = pre.batch[i].tags

\* a note with a category whose tag is there twice, beside a note whose only
\* tag is no title
C12_Witness ==
  /\ JustRan({"5"})
  /\ \E i, j \in DOMAIN batch :
       /\ batch[i].tags = <<"Home", "Home">>
       /\ batch[i].para_folder = "Archive"
       /\ Len(batch[i].parents) = 2
       /\ batch[j].tags = <<"Nowhere">>
       /\ Len(batch[j].parents) = 1

\* the batch of the scenario: Groceries tagged Home only, Home categorized Area
GroceriesScenario ==
  /\ trail = <<"4", "5", "K", "P">>
  /\ UniqueTitles(batch)
  /\ \E i, j \in DOMAIN batch :
       /\ batch[i].title = "Groceries" /\ batch[i].tags = <<"Home">>
       /\ batch[j].title = "Home" /\ batch[j].para_folder = "Areas"

\* C13 (note-parent wins over the default category).  Groceries has tags
\* [Home] and a note titled Home is categorized Area: after category
\* assignment, parent identification, the Archive-stripping step and
\* hierarchical path assignment, Groceries has the single note-parent Home
\* and the output path "Areas/Home".
C13_NoteParentWins ==
  GroceriesScenario =>
    LET g == batch[PlaceOf(batch, "Groceries")] IN
    /\ TitlesAndTypes(g.parents) = <<[title |-> "Home", type |-> "note"]>>
    /\ g.output_path = <<"Areas", "Home">>

C13_Witness ==
  /\ GroceriesScenario
  /\ batch[PlaceOf(batch, "Groceries")].output_path = <<"Areas", "Home">>
  /\ Len(pre.batch[PlaceOf(batch, "Groceries")].parents) = 1

\* the first parents form a cycle through every note of the batch
FullCycle(ns) ==
  /\ Len(ns) = CycleLen
  /\ \A k \in DOMAIN ns : parent_map(ns, ns[k].title) = ns[(k % Len(ns)) + 1].title

\* C14 (cycle termination).  For any graph of first parents over N notes, a
\* note that is its own parent, a cycle of two notes and a cycle of five
\* among them, get_full_path (and get_full_path_for_parent) ends for every
\* note within N recursive calls and returns a path that is not empty.
C14_CycleTermination ==
  \A i \in DOMAIN batch :
    /\ get_full_path(batch, batch[i].title, <<>>).steps <= Len(batch)
    /\ get_full_path(batch, batch[i].title, <<>>).path # NoPath
    /\ \A k \in DOMAIN get_full_path(batch, batch[i].title, <<>>).path :
         get_full_path(batch, batch[i].title, <<>>).path[k] # ""
    /\ get_full_path_for_parent(batch, batch[i].title, <<>>).steps <= Len(batch)
    /\ get_full_path_for_parent(batch, batch[i].title, <<>>).path # NoPath

C14_Witness ==
  /\ FullCycle(batch)
  /\ JustRan({"P"})
  /\ \A i \in DOMAIN batch :
       /\ get_full_path(batch, batch[i].title, <<>>).steps = Len(batch)
       /\ Len(batch[i].output_path) = Len(batch) + 1

C14_Witness_Self ==
  /\ JustRan({"P"})
  /\ \E i \in DOMAIN batch :
       /\ parent_map(batch, batch[i].title) = batch[i].title
       /\ batch[i].output_path = <<batch[i].title, batch[i].title>>

C14_Witness_Two ==
  /\ JustRan({"P"})
  /\ \E i, j \in DOMAIN batch :
       /\ i # j
       /\ parent_map(batch, batch[i].title) = batch[j].title
       /\ parent_map(batch, batch[j].title) = batch[i].title
       /\ batch[i].output_path = <<batch[i].title, batch[i].title, batch[j].title>>

\* the last stage was the second of two runs of one stage in succession
RanTwice(ops) ==
  /\ Len(trail) >= 2
  /\ trail[Len(trail)] \in ops
  /\ trail[Len(trail) - 1] = trail[Len(trail)]

SamePaths(ns, ms) ==
  /\ Len(ns) = Len(ms)
  /\ \A i \in DOMAIN ns : ns[i].output_path = ms[i].output_path

\* C15 (path idempotence).  A path-assignment transform run twice in
\* succession on an otherwise unchanged batch gives every note the same
\* output_path after the second run as after the first; for each of
\* P_assign_full_paths, U_path_assignment_ordered, U_assign_paths_with_ordinals.
C15_PathIdempotent ==
  RanTwice({"P", "U_ordered", "U"}) => SamePaths(batch, pre.batch)

\* two batches that are the same but for the output_path their notes carry
SameButPaths(ns, ms) ==
  /\ Len(ns) = Len(ms)
  /\ \A i \in DOMAIN ns : [ns[i] EXCEPT !.output_path = NoPath] = [ms[i] EXCEPT !.output_path = NoPath]

\* C16 (path resolution is a function of parents and category).  Two batches
\* that are identical except for the output_path values stored in their
\* notes have, after the U transform (its reclassification step included),
\* the same output_path and the same category for every note.
C16_PureOfParentsAndCategory ==
  (JustRan({"U", "U_ordered"}) /\ SameButPaths(pre.batch, pre.twin)) =>
    \A i \in DOMAIN batch :
      /\ batch[i].output_path = twin[i].output_path
      /\ batch[i].para_folder = twin[i].para_folder

\* the title of a note's primary parent, None for a note without parents
PrimaryParent(note) == IF note.parents = <<>> THEN None ELSE note.parents[1].title

IsCategoryRoot(title) == title \in {"Projects", "Areas", "Resources", "Archive"}

\* the walk up from a note ends within fuel steps: at a note without
\* parents, at a category root or at a title no note has
RECURSIVE ChainEnds(_, _, _)
ChainEnds(ns, note, fuel) ==
  IF PrimaryParent(note) = None \/ IsCategoryRoot(PrimaryParent(note)) THEN TRUE
  ELSE IF ~\E i \in DOMAIN ns : ns[i].title = PrimaryParent(note) THEN TRUE
  ELSE IF fuel = 0 THEN FALSE
  ELSE ChainEnds(ns, ns[PlaceOf(ns, PrimaryParent(note))], fuel - 1)

\* the primary parents of the batch form no cycle and name notes that exist
AcyclicAndWhole(ns) ==
  /\ UniqueTitles(ns)
  /\ \A i \in DOMAIN ns :
       /\ ChainEnds(ns, ns[i], Len(ns))
       /\ (PrimaryParent(ns[i]) # None /\ ~IsCategoryRoot(PrimaryParent(ns[i])))
            => \E j \in DOMAIN ns : ns[j].title = PrimaryParent(ns[i])

\* C17 (path algorithm).  On an acyclic graph of primary parents,
\* get_full_path gives a note without parent its sanitized category name, or
\* "." when it has no category; a note whose primary parent is a category
\* root that category's sanitized name; and every other note
\* path(parent) + "/" + sanitize(parent.title), or sanitize(parent.title)
\* alone when path(parent) is ".".
C17_PathAlgorithm ==
  (JustRan({"P"}) /\ AcyclicAndWhole(batch)) =>
    \A i \in DOMAIN batch :
      LET note == batch[i]
          parent == PrimaryParent(note)
      IN  IF parent = None
          THEN note.output_path =
                 (IF note.para_folder # None THEN <<sanitize_folder_name(note.para_folder)>>
                  ELSE <<".">>)
          ELSE IF IsCategoryRoot(parent)
          THEN note.output_path = <<sanitize_folder_name(parent)>>
          ELSE LET up == batch[PlaceOf(batch, parent)].output_path
               IN  note.output_path =
                     (IF up = <<".">> THEN <<sanitize_folder_name(parent)>>
                      ELSE up \o <<sanitize_folder_name(parent)>>)

\* a chain of three whose names sanitizing changes, below a category and
\* below the root
C17_Witness ==
  /\ JustRan({"P"}) /\ AcyclicAndWhole(batch)
  /\ \E i \in DOMAIN batch : batch[i].title = "..." /\ batch[i].output_path = <<"Areas", "Q_A", "Etc">>

C17_Witness_Root ==
  /\ JustRan({"P"}) /\ AcyclicAndWhole(batch)
  /\ \E i, j \in DOMAIN batch :
       /\ batch[i].title = "..." /\ batch[i].output_path = <<"Q_A", "Etc">>
       /\ batch[j].output_path = <<".">>

\* the note's primary parent is no category root and no note of the batch
MissingParent(ns, note) ==
  /\ PrimaryParent(note) # None
  /\ ~IsCategoryRoot(PrimaryParent(note))
  /\ \A j \in DOMAIN ns : ns[j].title # PrimaryParent(note)

\* the placement of a note taken to have no parent: its own category's
\* sanitized name, behind its ordinal where the transform writes ordinals
CategoryPlacements(note) ==
  IF note.para_folder = None THEN {<<".">>}
  ELSE {<<sanitize_folder_name(note.para_folder)>>,
        <<PARA_ORDINALS(sanitize_folder_name(note.para_folder))>>}

\* C18 (missing parent fallback).  A note whose primary parent title is
\* neither a category root nor the title of a note of the batch is placed as
\* a note without parent: its output_path is its own category's sanitized
\* name, or "." when it has no category, be it a container note or a leaf.
C18_MissingParentFallback ==
  JustRan({"P", "U", "U_ordered"}) =>
    \A i \in DOMAIN batch :
      MissingParent(batch, batch[i]) => batch[i].output_path \in CategoryPlacements(batch[i])

\* the name a category root is given for ordering
Ordinal(root) ==
  CASE root = "Projects" -> "1 Projects"
    [] root = "Areas" -> "2 Areas"
    [] root = "Resources" -> "3 Resources"
    [] root = "Archive" -> "4 Archive"

\* C19 (ordering prefix scope).  Applying the category ordinals changes only
\* the first segment of an output_path, and only when that segment is a
\* category-root name; every other segment, the path ".", and every path
\* whose first segment is no category-root name are left as they were.
C19_OrdinalScope ==
  JustRan({"U"}) =>
    \A i \in DOMAIN batch :
      LET before == steps_1_to_3(pre.batch)[i].output_path
          after == batch[i].output_path
      IN  /\ Len(after) = Len(before)
          /\ \A k \in DOMAIN before : k > 1 => after[k] = before[k]
          /\ (before # <<>> /\ ~IsCategoryRoot(before[1])) => after = before
          /\ (before # <<>> /\ IsCategoryRoot(before[1])) => after[1] = Ordinal(before[1])
          /\ before = <<".">> => after = <<".">>

\* a path of two segments below a category root, and in another batch a path
\* that starts with a note's name beside the path "."
C19_Witness ==
  /\ JustRan({"U"})
  /\ \E i \in DOMAIN batch :
       /\ steps_1_to_3(pre.batch)[i].output_path = <<"Projects", "Foo">>
       /\ batch[i].output_path = <<"1 Projects", "Foo">>

C19_Witness_Unchanged ==
  /\ JustRan({"U"})
  /\ \E i, j \in DOMAIN batch :
       /\ batch[i].output_path = <<".">>
       /\ Len(batch[j].output_path) = 2 /\ ~IsCategoryRoot(steps_1_to_3(pre.batch)[j].output_path[1])
       /\ batch[j].output_path = steps_1_to_3(pre.batch)[j].output_path

\* the note sits directly at the Projects root (under its ordinal name once
\* the ordinals are written)
AtProjectsRoot(path) == path \in {<<"Projects">>, <<"1 Projects">>}

Reclassified(was, is) == was.output_path # is.output_path \/ was.para_folder # is.para_folder

\* C20 (reclassification guard).  A status rule (Parked, Done) changes a
\* note's output_path or category only if the note sits directly at a
\* category root, its output_path being exactly the root; a note placed
\* under a note-parent (a path with a further segment, as "Projects/Foo") is
\* not modified by any reclassification step: reorganize_projects, step 2 of
\* the U transforms, fix_parked_leaves, fix_done_leaves.
C20_ReclassificationGuard ==
  /\ JustRan({"T", "0B", "0C"}) =>
       \A i \in DOMAIN batch :
         Reclassified(pre.batch[i], batch[i]) => AtProjectsRoot(pre.batch[i].output_path)
  /\ JustRan({"U", "U_ordered"}) =>
       \A i \in DOMAIN batch :
         Reclassified(step1_assign_parent_paths(pre.batch)[i],
                      step2_apply_project_reorganization(step1_assign_parent_paths(pre.batch))[i])
           => AtProjectsRoot(step1_assign_parent_paths(pre.batch)[i].output_path)

----------------------------------------------------------------------------
(* Claims on reclassification, containers and categories *)

SamePlaces(ns, ms) ==
  /\ Len(ns) = Len(ms)
  /\ \A i \in DOMAIN ns :
       /\ ns[i].output_path = ms[i].output_path
       /\ ns[i].para_folder = ms[i].para_folder

\* C21 (reclassification is idempotent).  Running a reclassification rule
\* (reorganize_projects, fix_parked_leaves, fix_done_leaves) again on a batch
\* it has already processed changes no note's output_path and no note's
\* category.
C21_ReclassificationIdempotent ==
  RanTwice({"T", "0B", "0C"}) => SamePlaces(batch, pre.batch)

\* each rule has run twice on a note its first run moved
C21_Witness ==
  /\ RanTwice({"T"})
  /\ \E i \in DOMAIN batch :
       Has(batch[i].tags, "Parked") /\ batch[i].output_path = <<"Projects", "z_Parked">>

C21_Witness_Parked ==
  /\ RanTwice({"0B"})
  /\ \E i \in DOMAIN batch :
       /\ InPath("z_Parked", batch[i].output_path)
       /\ fix_parked_leaves_no_skip(batch)[i] # batch[i]

C21_Witness_Done ==
  /\ RanTwice({"0C"})
  /\ "P" \in Range(trail)
  /\ \E i \in DOMAIN batch :
       Has(batch[i].tags, "Done") /\ batch[i].output_path = <<"4 Archive">>

\* the notes that are the first parent of at least one other note
Containers(ns) ==
  {ns[i].title : i \in {j \in DOMAIN ns :
     \E k \in DOMAIN ns : k # j /\ ns[k].parents # <<>> /\ ns[k].parents[1].title = ns[j].title}}

\* path assignment takes these notes, and no others, as the parents of step 1
C22_PathAssignment ==
  JustRan({"U", "U_ordered"}) => all_parents(pre.batch) = Containers(pre.batch)

\* the writer, run on a batch whose paths are assigned, makes these notes,
\* and no others, folder notes
C22_Writer ==
  (JustRan({"X"}) /\ \E k \in DOMAIN trail : trail[k] \in {"P", "U", "U_ordered"}) =>
    \A i \in DOMAIN batch :
      written.notes[i].is_folder_note <=> batch[i].title \in Containers(batch)

\* C22 (container classification).  The notes treated as containers
\* (all_parents in path assignment, is_folder_note in the writer, which gives
\* the note a folder bearing its own name) are exactly the notes whose title
\* is parents[0].title of at least one other note; every other note is a
\* leaf.
C22_ContainerClassification == C22_PathAssignment /\ C22_Writer

HasRun(op) == \E k \in DOMAIN trail : trail[k] = op

CategoryTags == {"Project", "Area", "ResourceTopic"}

NoCategoryTag(note) == \A k \in DOMAIN note.tags : note.tags[k] \notin CategoryTags

C23_Witness_Overwritten ==
  /\ HasRun("4") /\ JustRan({"T", "U", "U_ordered", "0C"})
  /\ \E i \in DOMAIN batch :
       pre.batch[i].para_folder = "Projects" /\ batch[i].para_folder = "Archive"

----------------------------------------------------------------------------
(* lib/io.py sanitize_filename and lib/validators.py validate_notes.  A    *)
(* name is the sequence of its characters.                                 *)

MaxName == 5
MaxChecked == 2
MaxTasks == 1

\* the class [<>:"/\\|?*] of the first re.sub, and the class [\x00-\x1f]
\* as far as names here go
InvalidChars == {"<", ">", ":", "\"", "/", "\\", "|", "?", "*"}
ControlChars == {"\t", "\n"}
StripChars == {".", " "}

Untitled == <<"u", "n", "t", "i", "t", "l", "e", "d">>

\* name.strip('. '): the characters of the set leave both ends
RECURSIVE lstrip(_)
lstrip(n) == IF n # <<>> /\ Head(n) \in StripChars THEN lstrip(Tail(n)) ELSE n

RECURSIVE rstrip(_)
rstrip(n) ==
  IF n # <<>> /\ n[Len(n)] \in StripChars THEN rstrip(SubSeq(n, 1, Len(n) - 1)) ELSE n

Replaced(n) == [i \in DOMAIN n |-> IF n[i] \in InvalidChars THEN "_" ELSE n[i]]

IsPrinted(c) == c \notin ControlChars

sanitize_filename(n) ==
  LET stripped == rstrip(lstrip(SelectSeq(Replaced(n), IsPrinted)))
  IN  IF stripped = <<>> THEN Untitled ELSE stripped

\* the messages, by what they report
Message(i, kind, j) == [note |-> i, kind |-> kind, task |-> j]

TaskErrors(i, tasks) ==
  Concat([j \in DOMAIN tasks |->
            (IF tasks[j].id = "" THEN <<Message(i, "task missing id", j)>> ELSE <<>>)
              \o (IF tasks[j].content = "" THEN <<Message(i, "task missing content", j)>> ELSE <<>>)])

\* the body of the loop for note i, with the ids and paths seen before it
NoteErrors(i, note, seen_ids, seen_paths) ==
  (IF note.id = "" THEN <<Message(i, "Missing id", 0)>>
   ELSE IF note.id \in seen_ids THEN <<Message(i, "Duplicate id", 0)>>
   ELSE <<>>)
    \o (IF note.title = "" THEN <<Message(i, "Missing title", 0)>> ELSE <<>>)
    \o (IF note.path = "" THEN <<Message(i, "Missing path", 0)>>
        ELSE IF note.path \in seen_paths THEN <<Message(i, "Duplicate path", 0)>>
        ELSE <<>>)
    \o TaskErrors(i, note.tasks)

RECURSIVE validate_from(_, _, _, _, _)
validate_from(ns, i, seen_ids, seen_paths, errs) ==
  IF i > Len(ns) THEN errs
  ELSE validate_from(ns, i + 1,
         IF ns[i].id # "" THEN seen_ids \cup {ns[i].id} ELSE seen_ids,
         IF ns[i].path # "" THEN seen_paths \cup {ns[i].path} ELSE seen_paths,
         errs \o NoteErrors(i, ns[i], seen_ids, seen_paths))

\* the slip of validate_notes: the paths seen are not remembered
validate_notes_paths_forgotten(ns) ==
  Concat([i \in DOMAIN ns |->
            NoteErrors(i, ns[i], {ns[k].id : k \in 1..(i - 1)} \ {""}, {})])

validate_notes(ns) == validate_from(ns, 1, {}, {}, <<>>)

----------------------------------------------------------------------------
(* Calls of the library functions *)

Chars == {"a", ".", " ", "\t", ":", "/", "<", ">", "\\"}

Names(n) == [1..n -> Chars]

\* a task, a task without id and a task without content
CheckedTasks ==
  UNION {[1..n -> {[id |-> "t1", content |-> "c"], [id |-> "", content |-> "c"],
                   [id |-> "t1", content |-> ""]}] : n \in 0..MaxTasks}

CheckedNotes ==
  [id : {"", "n1", "n2"}, title : {"", "A", "B"}, path : {"", "A.md", "B.md"},
   tasks : CheckedTasks]

CheckedBatches(n) == [1..n -> CheckedNotes]

\* a name or a batch of notes is at hand, and nothing has been called
InitLib ==
  /\ ResolverAtRest
  /\ NoBatch
  /\ \/ \E n \in 0..MaxName : raw \in Names(n) /\ checked = <<>>
     \/ \E n \in 0..MaxChecked : raw = <<>> /\ checked \in CheckedBatches(n)
  /\ safe = <<>>
  /\ messages = [called |-> FALSE, list |-> <<>>]

\* what sanitize_filename returns is never empty
Sanitize ==
  /\ safe = <<>>
  /\ safe' = sanitize_filename(raw)
  /\ UNCHANGED <<raw, checked, messages>>
  /\ UNCHANGED <<rvars, pvars>>

\* the messages are kept behind a mark, so that a call that found nothing
\* is told from no call
Validate ==
  /\ ~messages.called
  /\ messages' = [called |-> TRUE, list |-> validate_notes(checked)]
  /\ UNCHANGED <<raw, safe, checked>>
  /\ UNCHANGED <<rvars, pvars>>

NextLib ==
  \/ Sanitize
  \/ Validate

SpecLib == InitLib /\ [][NextLib]_vars

----------------------------------------------------------------------------
(* Claims on the library functions *)

\* sanitize_filename has been called on the name
Sanitized == safe # <<>>

OnlyInvalid(n) == n # <<>> /\ \A i \in DOMAIN n : n[i] \in InvalidChars

\* C24 (sanitization placeholder).  For a name that consists only of
\* characters invalid in filenames (for example ":/<>\"), sanitize_filename
\* returns the placeholder "untitled".
C24_Placeholder ==
  (Sanitized /\ OnlyInvalid(raw)) => safe = Untitled

\* validate_notes has been called on the batch
Validated == messages.called

ShareId(ns) == \E i, j \in DOMAIN ns : i # j /\ ns[i].id = ns[j].id
ShareTitle(ns) == \E i, j \in DOMAIN ns : i # j /\ ns[i].title = ns[j].title
SharePath(ns) == \E i, j \in DOMAIN ns : i # j /\ ns[i].path = ns[j].path
LacksField(ns) == \E i \in DOMAIN ns : ns[i].id = "" \/ ns[i].title = "" \/ ns[i].path = ""
TaskLacks(ns) ==
  \E i \in DOMAIN ns : \E j \in DOMAIN ns[i].tasks :
    ns[i].tasks[j].id = "" \/ ns[i].tasks[j].content = ""

\* C25 as claimed.  validate_notes returns a non-empty list of messages
\* whenever two notes of the batch share an id or share a title, a note
\* lacks a required field (id, title, path), or a task lacks an id or
\* content, and returns the empty list only when none of these holds.
C25_ValidationReporting_Claimed ==
  Validated =>
    ((ShareId(checked) \/ ShareTitle(checked) \/ LacksField(checked) \/ TaskLacks(checked))
       => messages.list # <<>>)

\* C25 (validation reporting).  validate_notes returns a non-empty list of
\* messages whenever two notes of the batch share an id or share a path, a
\* note lacks a required field (id, title, path), or a task lacks an id or
\* content, and returns the empty list only when none of these holds; two
\* notes that share a title are not reported.
C25_ValidationReporting ==
  Validated =>
    ((ShareId(checked) \/ SharePath(checked) \/ LacksField(checked) \/ TaskLacks(checked))
       <=> messages.list # <<>>)

\* a duplicate id, a duplicate path, a note without title and a task
\* without content have each been reported alone, and a batch in order has
\* been passed
C25_Witness ==
  /\ Validated
  /\ ShareId(checked) /\ ~SharePath(checked) /\ ~LacksField(checked) /\ ~TaskLacks(checked)
  /\ messages.list # <<>>

C25_Witness_Path ==
  /\ Validated
  /\ SharePath(checked) /\ ~ShareId(checked) /\ ~LacksField(checked) /\ ~TaskLacks(checked)
  /\ messages.list = <<Message(2, "Duplicate path", 0)>>

C25_Witness_Title ==
  /\ Validated
  /\ Len(checked) = 2 /\ checked[1].title = "" /\ checked[1].id # "" /\ checked[1].path # ""
  /\ messages.list = <<Message(1, "Missing title", 0)>>

C25_Witness_Task ==
  /\ Validated
  /\ ~LacksField(checked) /\ ~ShareId(checked) /\ ~SharePath(checked)
  /\ messages.list = <<Message(1, "task missing content", 1)>>

C25_Witness_Valid ==
  /\ Validated
  /\ Len(checked) = 2 /\ checked[1].tasks # <<>> /\ ShareTitle(checked)
  /\ messages.list = <<>>

----------------------------------------------------------------------------
(* Claims on the stages' folders and on the checklist across runs *)

\* C26 (stage chaining).  Each stage writes its output batch to the folder
\* named by its input folder name followed by that stage's identifier, and
\* for every stage the orchestrator runs successfully the folder name it
\* passes to the next stage as input is exactly the folder the finished
\* stage wrote.
C26_StageChaining ==
  /\ last.wrote => \E f \in folders : Append(f, SCRIPT_ID) \in folders
  /\ (orch.pc # "idle" /\ orch.successful_transforms = 1
        /\ last.via = "orch" /\ last.end = "saved")
       => orch.current_input \in folders
  /\ (orch.pc # "idle" /\ orch.successful_transforms > 1) => orch.current_input \in folders

\* C28 (completion is all-or-nothing).  The resolver stage deletes the
\* checklist file only in a run that also persists the stage's output batch;
\* if the run ends without writing the output (validation reports errors
\* and continuation is declined, or saving fails), the checklist with the
\* human's selections is still present afterwards.
C28_AllOrNothing ==
  (last.case = "applied" /\ last.pre.exists /\ last.class.complete # <<>>) => last.wrote

\* the checklist the last run found records parent p for note i below the
\* divider: an earlier run classified the selection as complete
Recorded(i, p) ==
  /\ last.pre.exists
  /\ p \in Titles(notes[i].parents)
  /\ \E l \in DOMAIN last.pre.lines :
       last.pre.lines[l] = Done(notes[i].title, p) /\ l > CompleteDivider(last.pre.lines)

\* C29 (selections survive a rewrite).  A selection that some resolver run
\* classified as complete and moved below the divider is not lost: a later
\* run that rewrites the checklist still records it, and once every
\* remaining note has also been given exactly one selection, the notes
\* completed in earlier runs end with parents equal to the parent recorded
\* for them, without the human having to select them again.
C29_SelectionsSurvive ==
  AfterRun => \A i \in DOMAIN notes : \A p \in Titles(notes[i].parents) :
    Recorded(i, p) =>
      /\ exists => \E l \in DOMAIN content : content[l] = Done(notes[i].title, p)
      /\ ~exists => Titles(last.mem[i].parents) = {p} /\ Len(last.mem[i].parents) = 1
      /\ OpenSections(last.pre.lines) = {} =>
           /\ last.case = "applied"
           /\ Titles(last.mem[i].parents) = {p} /\ Len(last.mem[i].parents) = 1

----------------------------------------------------------------------------
(* Claims on the U transform as a whole *)

\* a bare member of the Projects root: a Project-tagged note of category
\* Projects whose primary parent, if it has one, is the category itself
BareProject(note) ==
  /\ Has(note.tags, "Project")
  /\ note.para_folder = "Projects"
  /\ \/ note.parents = <<>>
     \/ note.parents[1] = ParaEntry("Projects")

StatusPlace(note) ==
  IF Has(note.tags, "Parked") THEN <<"1 Projects", "z_Parked">>
  ELSE IF Has(note.tags, "Done") THEN <<"4 Archive">>
  ELSE <<"1 Projects">>

C27_Containers ==
  JustRan({"U"}) =>
    \A i \in DOMAIN batch :
      (BareProject(pre.batch[i]) /\ pre.batch[i].title \in all_parents(pre.batch))
        => batch[i].output_path = StatusPlace(pre.batch[i])

C27_Leaves ==
  JustRan({"U"}) =>
    \A i \in DOMAIN batch :
      (BareProject(pre.batch[i]) /\ pre.batch[i].title \notin all_parents(pre.batch))
        => batch[i].output_path = StatusPlace(pre.batch[i])

\* C27 (reclassification results reach the final paths).  After the U
\* path-assignment transform, every Project-tagged note tagged Parked that
\* is a bare member of the Projects root has output_path
\* "1 Projects/z_Parked", and every such note tagged Done and not Parked has
\* output_path "4 Archive", for container notes and leaf notes alike.
C27_ReclassificationReachesPaths == C27_Containers /\ C27_Leaves

\* the place of the note that is note i's primary parent, 0 when the primary
\* parent is a category or no note of the batch
ParentNote(ns, i) ==
  IF ns[i].parents = <<>> THEN 0
  ELSE IF ns[i].parents[1].type = "para_folder" THEN 0
  ELSE IF \E j \in DOMAIN ns : j # i /\ ns[j].title = ns[i].parents[1].title
  THEN CHOOSE j \in DOMAIN ns : j # i /\ ns[j].title = ns[i].parents[1].title
  ELSE 0

InsideOf(parent) ==
  (IF parent.output_path = RootPath THEN <<>> ELSE parent.output_path)
    \o <<sanitize_folder_name(parent.title)>>

\* C30 (consistent hierarchy).  After the U path-assignment transform (parent
\* paths, reclassification, leaf paths, ordinals) on an acyclic graph, every
\* note whose primary parent is another note p of the batch has output_path
\* equal to output_path(p) + "/" + sanitize(p.title), or sanitize(p.title)
\* when p is at the root; a child is always located inside its parent's
\* folder, also when the parent was moved by a status rule.
C30_ConsistentHierarchy ==
  (JustRan({"U"}) /\ UniqueTitles(pre.batch) /\ AcyclicAndWhole(pre.batch)) =>
    \A i \in DOMAIN batch :
      ParentNote(batch, i) # 0 => batch[i].output_path = InsideOf(batch[ParentNote(batch, i)])

====
